---- MODULE Spec2Model ----
(***************************************************************************)
(* Model of class Synth (src/synth.hh): a QThread worker that sleeps until *)
(* the next note onset and emits a pre-rendered buffer, and a foreground   *)
(* that calls tick() and stop().                                           *)
(*                                                                         *)
(* Times (m_pos, m_delay, m_noteBegin, SynthNote::begin) are doubles in    *)
(* seconds in the source; the model keeps them as integers in milliseconds *)
(* so 0.001 s = 1, 0.2 s = 200, 1.0 s = 1000.  SynthNote::length is kept   *)
(* in quarter sample periods (1/32000 s): length * sampleRate = length/4. *)
(***************************************************************************)
EXTENDS Integers, Sequences, FiniteSets, TLC

\* ---------------------------------------------------------------- bounds
MaxTicks == 2
MaxEmits == 2

\* ------------------------------------------------------ program constants
\* ULONG_MAX / 1000.0 seconds (line 108): larger than every finite delay.
DelaySentinel == 2000000000
\* 0.001 s, the floor of line 120
MinDelay == 1
\* 1.0 s, the floor of line 94
RetriggerFloor == 1000
\* 0.2 s, the advance of line 92
PosEpsilon == 200
\* m_soundData[2], line 173
NumBuffers == 2
\* static const int sampleRate, line 167
sampleRate == 8000
\* Units of SynthNote::length per second (quarter sample periods)
LengthUnit == 32000
\* The octave of n.note % 12, line 116
Octave == 12

\* ------------------------------------------------------------ input sets
\* tick() positions in ms (qint64 pos, line 50)
Positions == {0, 600}
\* Notes the foreground may pass: pitch index, onset (ms), length
NoteA == [note |-> 4,  begin |-> 0,    length |-> 8]
NoteB == [note |-> -1, begin |-> 500,  length |-> 1]
NoteC == [note |-> 13, begin |-> 500,  length |-> 8]
NoteD == [note |-> 7,  begin |-> 1000, length |-> 5]
\* Note lists the foreground may pass; the last one is not sorted by onset
NoteLists ==
    { <<>>, <<NoteA>>, <<NoteB>>, <<NoteC, NoteD>>, <<NoteA, NoteB, NoteD>>,
      <<NoteD, NoteB>> }
\* timer.elapsed() of line 119, in ms
Elapsed == {0, 2}

\* SynthNote() of line 27: note(24), begin(), length()
DefaultNote == [note |-> 24, begin |-> 0, length |-> 0]
VARIABLES
    m_notes, m_pos, m_quit,              \* shared PlaybackState
    m_delay, m_noteBegin, m_curBuffer,   \* worker fields
    m_soundData,                         \* the two buffer slots
    mutex,                               \* holder of m_mutex: "free" or "worker"
    pc, ret, n, posTmp,                  \* worker position and locals
    waitForever,                         \* whether a wait on the sentinel never expires
    ticks, tickPos,                      \* number of ticks, position of the last one
    passTick, scanIdx, scanHit, passes,  \* last scan: ticks seen, index, found?; scans so far
    scanPos,                             \* m_pos as the last scan read it
    emits, lastEmitted, emitted,         \* emissions, last slot emitted and its content
    emitOnset, emitTick,                 \* last emission: onset selected, ticks made before it
    exited,                              \* run() has returned at least once
    written,                             \* slots written since the last emission
    rendered, selBegin,                  \* last pass rendered?; onset it selected
    wakeKind, quitInWait                 \* how the last wait ended; stop() during it

vars == << m_notes, m_pos, m_quit, m_delay, m_noteBegin, m_curBuffer, m_soundData,
           mutex, pc, ret, n, posTmp, waitForever, ticks, tickPos, passTick,
           scanIdx, scanHit, passes, emits, lastEmitted, emitted, written,
           rendered, selBegin, wakeKind, quitInWait, scanPos, emitOnset, emitTick,
           exited >>

shared   == << m_notes, m_pos, m_quit >>
wfields  == << m_delay, m_noteBegin, m_curBuffer, m_soundData >>
locals   == << n, posTmp >>
fgHist   == << ticks, tickPos >>
scanHist == << passTick, scanIdx, scanHit, passes, scanPos >>
emitHist == << emits, lastEmitted, emitted, written, emitOnset, emitTick >>
passHist == << rendered, selBegin >>
waitHist == << wakeKind, quitInWait >>

\* ------------------------------------------------------- pure functions
\* C++ integer remainder (truncating division), as in n.note % 12
CRem(a, b) == IF a >= 0 THEN a % b ELSE -((-a) % b)

\* Mutant of SkipNote: the comparison written <=
SkipNoteOrEqual(begin, pos) == begin <= pos

\* The loop condition of line 107: the note lies before the position
SkipNote(begin, pos) == begin < pos

\* Lines 106-107: index of the note the iterator stops at, Len+1 for end()
RECURSIVE ScanFrom(_, _, _)
ScanFrom(notes, pos, i) ==
    IF i <= Len(notes) /\ SkipNote(notes[i].begin, pos)
    THEN ScanFrom(notes, pos, i + 1)
    ELSE i

\* Mutant of NeedsRender: every pass renders
AlwaysRender(begin, noteBegin) == TRUE

\* Line 113: a new buffer is needed
NeedsRender(begin, noteBegin) == begin # noteBegin

\* Mutant of FloorDelay: the clamp left out
NoFloor(d) == d

\* Line 120: if (m_delay <= 0.001) m_delay = 0.001
FloorDelay(d) == IF d <= MinDelay THEN MinDelay ELSE d

\* Mutant of CooldownDelay: the cooldown left out
NoCooldown(d) == d

\* Line 94: std::max(m_delay, 1.0)
CooldownDelay(d) == IF d < RetriggerFloor THEN RetriggerFloor ELSE d

\* Mutant of NextBuffer: the index is not flipped
NoFlip(c) == c

\* Line 86: (m_curBuffer+1) % 2
NextBuffer(c) == (c + 1) % NumBuffers

\* Line 127: length * sampleRate converted to unsigned (truncation)
HeaderSamples(length) == (length * sampleRate) \div LengthUnit

\* Line 133: iterations of for (size_t i = 0; i < length * sampleRate; ++i)
LoopSamples(length) == (length * sampleRate + LengthUnit - 1) \div LengthUnit

\* Lines 147-165: the header fields and its byte count
writeWavHeader(bits, ch, sr, samples) ==
    LET bps      == (ch * bits) \div 8
        datasize == bps * samples
        size     == datasize + 44
    IN  [ riffSize   |-> size - 8,
          fmtSize    |-> 16,
          format     |-> 1,
          channels   |-> ch,
          sampleRate |-> sr,
          byteRate   |-> bps * sr,
          blockAlign |-> bps,
          bits       |-> bits,
          dataSize   |-> datasize,
          bytes      |-> 4 + 4 + 8 + 4 + 2 + 2 + 4 + 4 + 2 + 2 + 4 + 4 ]

\* Lines 124-140: the QByteArray written to m_soundData[m_curBuffer]:
\* header, then one byte per loop iteration of the tone of pitch class `note`
createBuffer(note, length) ==
    LET header == writeWavHeader(8, 1, sampleRate, HeaderSamples(length))
    IN  [ header |-> header,
          tone   |-> note,
          size   |-> header.bytes + LoopSamples(length) ]

\* A default-constructed QByteArray (line 173)
EmptyBuffer == [header |-> <<>>, tone |-> 0, size |-> 0]

\* Line 75: whether wait(&m_mutex, m_delay * 1000) can time out.  For the
\* sentinel the double m_delay * 1000 is converted to unsigned long at or
\* beyond ULONG_MAX: the result is ULONG_MAX (wait without time limit) or some
\* other value, depending on the build, which waitForever fixes at Init.
WaitExpires(delay) == delay # DelaySentinel \/ ~waitForever

\* Where calcNext returns to: line 72 after lines 71 and 79, line 94 after line 93
Return(r) == IF r = "timeout" THEN "floor" ELSE "test"

\* ------------------------------------------------------------------ Init
\* Line 42: m_delay(), m_pos(), m_noteBegin(), m_curBuffer(), m_quit()
Init ==
    /\ m_notes = <<>>
    /\ m_pos = 0
    /\ m_quit = FALSE
    /\ m_delay = 0
    /\ m_noteBegin = 0
    /\ m_curBuffer = 0
    /\ m_soundData = [i \in 0..(NumBuffers - 1) |-> EmptyBuffer]
    /\ mutex = "free"
    /\ pc = "idle"
    /\ ret = "initial"
    /\ n = DefaultNote
    /\ posTmp = 0
    /\ waitForever \in BOOLEAN
    /\ ticks = 0
    /\ tickPos = 0
    /\ passTick = 0
    /\ scanIdx = 0
    /\ scanHit = FALSE
    /\ passes = 0
    /\ emits = 0
    /\ lastEmitted = 0
    /\ emitted = EmptyBuffer
    /\ written = {}
    /\ rendered = FALSE
    /\ selBegin = -1
    /\ wakeKind = "none"
    /\ quitInWait = FALSE
    /\ scanPos = 0
    /\ emitOnset = -1
    /\ emitTick = 0
    /\ exited = FALSE

\* ------------------------------------------------------------ foreground
\* m_condition.wakeOne(): releases the worker if it is blocked in wait()
WakeOne(p) == IF p = "waiting" THEN "woken" ELSE p
InWait(p) == p \in {"waiting", "woken", "timedout"}

\* The worker steps that read or write m_notes, m_pos or m_quit: lines 72, 78,
\* 84 (m_quit), 92 and 112 (m_pos), 106-109 (m_notes, m_pos)
TouchesShared(p) ==
    p \in {"test", "quitT", "quitF", "adv_read", "adv_write", "cn_scan", "cn_delay"}

\* Mutant of Tick: the update also resets m_noteBegin to force a render
TickResettingOnset(pos, notes) ==
    /\ ticks < MaxTicks
    /\ mutex = "free"
    /\ m_pos' = pos
    /\ m_notes' = notes
    /\ m_noteBegin' = -1
    /\ IF pc # "idle"
       THEN pc' = WakeOne(pc) /\ UNCHANGED << ret, wakeKind >>
       ELSE pc' = "cn_lock" /\ ret' = "initial" /\ wakeKind' = "none"
    /\ ticks' = ticks + 1
    /\ tickPos' = pos
    /\ UNCHANGED << m_quit, m_delay, m_curBuffer, m_soundData, mutex, locals,
                    waitForever, exited, scanHist, emitHist, passHist, quitInWait >>

\* Lines 50-57
Tick(pos, notes) ==
    /\ ticks < MaxTicks
    /\ mutex = "free"
    /\ m_pos' = pos
    /\ m_notes' = notes
    /\ IF pc # "idle"
       THEN pc' = WakeOne(pc) /\ UNCHANGED << ret, wakeKind >>
       ELSE pc' = "cn_lock" /\ ret' = "initial" /\ wakeKind' = "none"
    /\ ticks' = ticks + 1
    /\ tickPos' = pos
    /\ UNCHANGED << m_quit, wfields, mutex, locals, waitForever, exited, scanHist,
                    emitHist, passHist, quitInWait >>

\* Lines 59-63
Stop ==
    /\ mutex = "free"
    /\ m_quit' = TRUE
    /\ pc' = WakeOne(pc)
    /\ quitInWait' = (quitInWait \/ InWait(pc))
    /\ UNCHANGED << m_notes, m_pos, wfields, mutex, ret, locals, waitForever, exited,
                    fgHist, scanHist, emitHist, passHist, wakeKind >>

\* ---------------------------------------------------------------- worker
\* Line 105: QMutexLocker locker(&m_mutex)
CalcLock ==
    /\ pc = "cn_lock"
    /\ mutex = "free"
    /\ mutex' = "worker"
    /\ pc' = "cn_scan"
    /\ UNCHANGED << shared, wfields, ret, locals, waitForever, exited, fgHist, scanHist,
                    emitHist, passHist, waitHist >>

\* Lines 106-110: the scan under the lock, and the unlock at scope exit
CalcScan ==
    /\ pc = "cn_scan"
    /\ LET i == ScanFrom(m_notes, m_pos, 1)
       IN  /\ scanIdx' = i
           /\ scanHit' = (i <= Len(m_notes))
           /\ IF i > Len(m_notes)
              THEN /\ m_delay' = DelaySentinel
                   /\ pc' = Return(ret)
                   /\ rendered' = FALSE
                   /\ UNCHANGED n
              ELSE /\ n' = m_notes[i]
                   /\ pc' = "cn_delay"
                   /\ UNCHANGED << m_delay, rendered >>
    /\ passTick' = ticks
    /\ scanPos' = m_pos
    /\ passes' = IF passes < 2 THEN passes + 1 ELSE passes
    /\ mutex' = "free"
    /\ UNCHANGED << shared, m_noteBegin, m_curBuffer, m_soundData, ret, posTmp,
                    waitForever, exited, fgHist, emitHist, selBegin, waitHist >>

\* Line 112: m_delay = n.begin - m_pos
CalcDelay ==
    /\ pc = "cn_delay"
    /\ m_delay' = n.begin - m_pos
    /\ pc' = "cn_render"
    /\ UNCHANGED << shared, m_noteBegin, m_curBuffer, m_soundData, mutex, ret,
                    locals, waitForever, exited, fgHist, scanHist, emitHist, passHist,
                    waitHist >>

\* Lines 113-117
CalcRender ==
    /\ pc = "cn_render"
    /\ IF NeedsRender(n.begin, m_noteBegin)
       THEN /\ m_noteBegin' = n.begin
            /\ m_soundData' = [m_soundData EXCEPT
                                 ![m_curBuffer] = createBuffer(CRem(n.note, Octave), n.length)]
            /\ written' = written \cup {m_curBuffer}
            /\ rendered' = TRUE
       ELSE /\ rendered' = FALSE
            /\ UNCHANGED << m_noteBegin, m_soundData, written >>
    /\ selBegin' = n.begin
    /\ pc' = "cn_comp"
    /\ UNCHANGED << shared, m_delay, m_curBuffer, mutex, ret, locals, waitForever, exited,
                    fgHist, scanHist, emits, lastEmitted, emitted, emitOnset, emitTick,
                    waitHist >>

\* Lines 119-120
CalcComp ==
    /\ pc = "cn_comp"
    /\ \E e \in Elapsed : m_delay' = FloorDelay(m_delay - e)
    /\ pc' = Return(ret)
    /\ UNCHANGED << shared, m_noteBegin, m_curBuffer, m_soundData, mutex, ret,
                    locals, waitForever, exited, fgHist, scanHist, emitHist, passHist,
                    waitHist >>

\* Line 72: while (!m_quit); run() returns when the test fails
LoopTest ==
    /\ pc = "test"
    /\ pc' = IF m_quit THEN "idle" ELSE "lock"
    /\ exited' = (exited \/ m_quit)
    /\ UNCHANGED << shared, wfields, mutex, ret, locals, waitForever, fgHist,
                    scanHist, emitHist, passHist, waitHist >>

\* Line 73
Lock ==
    /\ pc = "lock"
    /\ mutex = "free"
    /\ mutex' = "worker"
    /\ pc' = "wait"
    /\ UNCHANGED << shared, wfields, ret, locals, waitForever, exited, fgHist, scanHist,
                    emitHist, passHist, waitHist >>

\* Line 75: wait() releases the mutex and blocks
EnterWait ==
    /\ pc = "wait"
    /\ mutex' = "free"
    /\ pc' = "waiting"
    /\ wakeKind' = "none"
    /\ quitInWait' = FALSE
    /\ UNCHANGED << shared, wfields, ret, locals, waitForever, exited, fgHist, scanHist,
                    emitHist, passHist >>

\* Line 75: the time m_delay * 1000 runs out
Timeout ==
    /\ pc = "waiting"
    /\ WaitExpires(m_delay)
    /\ emits < MaxEmits \/ m_quit
    /\ pc' = "timedout"
    /\ UNCHANGED << shared, wfields, mutex, ret, locals, waitForever, exited, fgHist,
                    scanHist, emitHist, passHist, waitHist >>

\* Line 75: wait() re-acquires the mutex and returns true
WakeReturn ==
    /\ pc = "woken"
    /\ mutex = "free"
    /\ mutex' = "worker"
    /\ pc' = "unlockT"
    /\ wakeKind' = "woken"
    /\ UNCHANGED << shared, wfields, ret, locals, waitForever, exited, fgHist, scanHist,
                    emitHist, passHist, quitInWait >>

\* Line 75: wait() re-acquires the mutex and returns false
TimeoutReturn ==
    /\ pc = "timedout"
    /\ mutex = "free"
    /\ mutex' = "worker"
    /\ pc' = "unlockF"
    /\ wakeKind' = "timeout"
    /\ UNCHANGED << shared, wfields, ret, locals, waitForever, exited, fgHist, scanHist,
                    emitHist, passHist, quitInWait >>

\* Line 77
UnlockWoken ==
    /\ pc = "unlockT"
    /\ mutex' = "free"
    /\ pc' = "quitT"
    /\ UNCHANGED << shared, wfields, ret, locals, waitForever, exited, fgHist, scanHist,
                    emitHist, passHist, waitHist >>

\* Lines 78-79: if (m_quit) break; calcNext()
QuitCheckWoken ==
    /\ pc = "quitT"
    /\ IF m_quit
       THEN pc' = "idle" /\ UNCHANGED ret
       ELSE pc' = "cn_lock" /\ ret' = "woken"
    /\ exited' = (exited \/ m_quit)
    /\ UNCHANGED << shared, wfields, mutex, locals, waitForever, fgHist, scanHist,
                    emitHist, passHist, waitHist >>

\* Line 83
UnlockTimeout ==
    /\ pc = "unlockF"
    /\ mutex' = "free"
    /\ pc' = "quitF"
    /\ UNCHANGED << shared, wfields, ret, locals, waitForever, exited, fgHist, scanHist,
                    emitHist, passHist, waitHist >>

\* Mutant of QuitCheckTimeout: the shutdown check of line 84 left out
EmitWithoutQuitCheck ==
    /\ pc = "quitF"
    /\ pc' = "emit"
    /\ UNCHANGED << shared, wfields, mutex, ret, locals, waitForever, exited, fgHist,
                    scanHist, emitHist, passHist, waitHist >>

\* Line 84: if (m_quit) break
QuitCheckTimeout ==
    /\ pc = "quitF"
    /\ pc' = IF m_quit THEN "idle" ELSE "emit"
    /\ exited' = (exited \/ m_quit)
    /\ UNCHANGED << shared, wfields, mutex, ret, locals, waitForever, fgHist,
                    scanHist, emitHist, passHist, waitHist >>

\* Lines 85-86: emit playBuffer(m_soundData[m_curBuffer]) and the flip
Emit ==
    /\ pc = "emit"
    /\ emits' = emits + 1
    /\ emitted' = m_soundData[m_curBuffer]
    /\ lastEmitted' = m_curBuffer
    /\ written' = {}
    /\ emitOnset' = IF scanHit THEN n.begin ELSE -1
    /\ emitTick' = ticks
    /\ m_curBuffer' = NextBuffer(m_curBuffer)
    /\ pc' = "adv_read"
    /\ UNCHANGED << shared, m_delay, m_noteBegin, m_soundData, mutex, ret, locals,
                    waitForever, exited, fgHist, scanHist, passHist, waitHist >>

\* Line 92, m_pos += 0.2: the read of m_pos
AdvanceRead ==
    /\ pc = "adv_read"
    /\ posTmp' = m_pos
    /\ pc' = "adv_write"
    /\ UNCHANGED << shared, wfields, mutex, ret, n, waitForever, exited, fgHist, scanHist,
                    emitHist, passHist, waitHist >>

\* Line 92, m_pos += 0.2: the write; line 93 calls calcNext
AdvanceWrite ==
    /\ pc = "adv_write"
    /\ m_pos' = posTmp + PosEpsilon
    /\ pc' = "cn_lock"
    /\ ret' = "timeout"
    /\ UNCHANGED << m_notes, m_quit, wfields, mutex, locals, waitForever, exited, fgHist,
                    scanHist, emitHist, passHist, waitHist >>

\* Line 94
Cooldown ==
    /\ pc = "floor"
    /\ m_delay' = CooldownDelay(m_delay)
    /\ pc' = "test"
    /\ UNCHANGED << shared, m_noteBegin, m_curBuffer, m_soundData, mutex, ret,
                    locals, waitForever, exited, fgHist, scanHist, emitHist, passHist,
                    waitHist >>

calcNext == CalcLock \/ CalcScan \/ CalcDelay \/ CalcRender \/ CalcComp

run ==
    \/ calcNext
    \/ LoopTest \/ Lock \/ EnterWait \/ Timeout \/ WakeReturn \/ TimeoutReturn
    \/ UnlockWoken \/ QuitCheckWoken \/ UnlockTimeout \/ QuitCheckTimeout
    \/ Emit \/ AdvanceRead \/ AdvanceWrite \/ Cooldown

Foreground ==
    \/ \E pos \in Positions, notes \in NoteLists : Tick(pos, notes)
    \/ Stop

Next == Foreground \/ run

Spec == Init /\ [][Next]_vars

\* ---------------------------------------------------------------- claims
\* Whether a note list holds a note with onset >= pos
HasUpcoming(notes, pos) == \E i \in 1..Len(notes) : notes[i].begin >= pos

\* C1: once stop() has been called, the worker is never left blocked in a
\* timed wait that cannot end by itself (it reaches Stopped without a further
\* tick and without relying on the delay, also when the delay is the
\* wait-indefinitely sentinel).
StopEndsEveryWait ==
    ~(m_quit /\ pc = "waiting" /\ ~WaitExpires(m_delay))

\* C2: a tick that returned while the worker runs and is not shut down is
\* never lost: the worker never blocks in the timed wait on a delay computed
\* by a schedule pass that read the state of an older tick.
TickNeverLost ==
    (pc = "waiting" /\ ~m_quit) => passTick = ticks

\* C3: while the most recently ticked state has no note with onset >= position
\* the worker, when blocked in the timed wait, is in the indefinite wait.
NoNoteMeansIndefiniteWait ==
    (pc = "waiting" /\ ~m_quit /\ ~HasUpcoming(m_notes, tickPos))
        => m_delay = DelaySentinel

\* C4: when the worker's first schedule pass selects a note, the active slot
\* holds the buffer rendered for that note before the first timed wait, for
\* every onset of that note, onset 0 included.
FirstPassRenders ==
    (passes = 1 /\ scanHit /\ pc = "wait")
        => m_soundData[m_curBuffer] = createBuffer(CRem(n.note, Octave), n.length)

\* C5: after an onset fired (the wait timed out and a buffer was emitted) the
\* worker enters its next timed wait with a delay of at least 1 second.
CooldownAfterOnset ==
    (pc = "wait" /\ wakeKind = "timeout") => m_delay >= RetriggerFloor

\* C5 witness: the next wait after an emission is entered with exactly the
\* 1 s floor while the selected note is less than 1 s ahead.
CooldownAfterOnsetWitness ==
    /\ pc = "wait" /\ wakeKind = "timeout" /\ emits > 0
    /\ scanHit /\ n.begin - m_pos < RetriggerFloor
    /\ m_delay = RetriggerFloor

\* C6: every emission flips the active index exactly once and comes from the
\* slot other than the previous emission's, and no render pass writes the
\* slot last emitted before the next emission.
BufferRotation ==
    /\ [][emits' # emits =>
            /\ emits' = emits + 1
            /\ lastEmitted' = m_curBuffer
            /\ m_curBuffer' # m_curBuffer
            /\ m_curBuffer' \in 0..(NumBuffers - 1)
            /\ (emits > 0 => lastEmitted' # lastEmitted)]_vars
    /\ [][emits' = emits => (m_curBuffer' = m_curBuffer)]_vars
    /\ [](emits > 0 => lastEmitted \notin written)

\* C6 witness: after the second emission a render pass has written a slot.
BufferRotationWitness ==
    emits = 2 /\ written = {m_curBuffer} /\ lastEmitted # m_curBuffer

\* C7: the scan selects the first note in sequence order whose onset is
\* >= position, never one with onset < position, and end() when there is
\* none; the index is determined by position and notes alone.
ScanSelectsFirst ==
    [][(pc = "cn_scan" /\ pc' # "cn_scan") =>
         LET i == scanIdx'
         IN  /\ i \in 1..(Len(m_notes) + 1)
             /\ \A j \in 1..(i - 1) : m_notes[j].begin < m_pos
             /\ i <= Len(m_notes) =>
                    /\ m_notes[i].begin >= m_pos
                    /\ n' = m_notes[i]
                    /\ scanHit'
             /\ i > Len(m_notes) => (~scanHit' /\ m_delay' = DelaySentinel)]_vars

\* C7 witness: a scan skipped a past note and selected a later one of a list
\* that is not sorted by onset.
ScanSelectsFirstWitness ==
    /\ pc = "cn_delay" /\ scanIdx = 2 /\ scanHit
    /\ m_notes = <<NoteD, NoteB>> /\ n = NoteB

\* C8: a schedule pass that selected a note renders if and only if that
\* note's onset differs from m_noteBegin; when the onset is the one the
\* previous selecting pass selected, no slot is written and m_noteBegin stays.
RenderIffNewOnset ==
    [][(pc = "cn_render" /\ pc' = "cn_comp") =>
         /\ rendered' <=> (n.begin # m_noteBegin)
         /\ rendered' =>
                /\ m_soundData' = [m_soundData EXCEPT ![m_curBuffer] =
                                     createBuffer(CRem(n.note, Octave), n.length)]
                /\ m_noteBegin' = n.begin
         /\ ~rendered' => (m_soundData' = m_soundData /\ m_noteBegin' = m_noteBegin)
         /\ n.begin = selBegin => ~rendered']_vars

\* C8 witness: a tick with a larger position and the same note list woke the
\* worker and its pass selected the same note without rendering.
RenderIffNewOnsetWitness ==
    /\ pc = "cn_comp" /\ ret = "woken" /\ ~rendered /\ scanHit
    /\ ticks = 2 /\ tickPos > 0 /\ emits = 0
    /\ m_soundData[m_curBuffer] = createBuffer(CRem(n.note, Octave), n.length)

\* C9: when stop() is called while the worker is inside the timed wait, the
\* worker emits no buffer for that wait, whether the wait returns woken or
\* timed out.
StopInWaitSkipsOnset ==
    [][quitInWait => (emits' = emits /\ pc' # "emit")]_vars

\* C9 witness: the wait timed out, stop() ran before it returned, and the
\* worker has exited.
StopInWaitSkipsOnsetWitness ==
    quitInWait /\ wakeKind = "timeout" /\ pc = "idle"

\* C10: whenever the worker enters the timed wait, m_delay is at least the
\* floor of 0.001 s.
DelayFloorAtWait ==
    pc = "wait" => m_delay >= MinDelay

\* C10 witness: the wait is entered with the floor after a tick moved the
\* position beyond the onset of the selected note.
DelayFloorAtWaitWitness ==
    pc = "wait" /\ scanHit /\ n.begin < m_pos /\ m_delay = MinDelay

\* round(length * sampleRate), halves rounded up
RoundSamples(length) == (2 * length * sampleRate + LengthUnit) \div (2 * LengthUnit)

\* C11: a buffer rendered for a note of pitch class 0..11 and length d > 0 is
\* 44 + round(d * 8000) bytes long, and the data-size field of its header
\* equals the number of sample bytes that follow the header.
RenderedSizeMatchesHeader ==
    (pc = "cn_comp" /\ rendered /\ n.length > 0
                     /\ CRem(n.note, Octave) \in 0..(Octave - 1))
        => LET buf == m_soundData[m_curBuffer]
           IN  /\ buf.size = 44 + RoundSamples(n.length)
               /\ buf.header.dataSize = buf.size - buf.header.bytes

\* C15: whenever the worker is about to read or write the shared position,
\* note list or shutdown flag, it holds the mutex.
SharedAccessUnderLock ==
    TouchesShared(pc) => mutex = "worker"

PitchClassInRange ==
    \A i \in 0..(NumBuffers - 1) :
        m_soundData[i].size > 0 => m_soundData[i].tone \in 0..(Octave - 1)

\* C19: once stop() has returned (m_quit is set), no buffer is emitted.
NoEmitAfterStop ==
    [][m_quit => emits' = emits]_vars

\* C12: when the onset selected for an emission is the onset selected for
\* the previous emission (the index was flipped and the re-render skipped),
\* the slot about to be emitted holds the tone rendered for that note, never
\* an empty slot or an older note's tone.
EmittedToneMatchesNote ==
    (pc = "emit" /\ emits >= 1 /\ scanHit /\ n.begin = emitOnset)
        => m_soundData[m_curBuffer] = createBuffer(CRem(n.note, Octave), n.length)

\* C13: with no tick in between, the worker does not emit twice for the same
\* onset: the note selected for an emission differs in onset from the note
\* selected for the previous emission.
OnsetEmittedOnce ==
    (pc = "emit" /\ scanHit /\ emits >= 1 /\ emitTick = ticks)
        => n.begin # emitOnset

\* C14: the delay of a schedule pass is computed from the position against
\* which its note was selected.
PassUsesOneSnapshot ==
    pc = "cn_render" => m_delay = n.begin - scanPos

\* C16: once run() has returned after stop(), the worker stays stopped: no
\* later tick makes it run a schedule pass, render, change m_delay or
\* m_noteBegin, or emit.
StoppedIsTerminal ==
    exited => pc = "idle"

====
